---------------------------- MODULE Spec2Model ----------------------------
(* Behavioural design-pattern examples of design_patterns_cpp, as state    *)
(* machines:                                                               *)
(*   - behavioural/interpreter.cpp : parse() and Expression::interpret()   *)
(*   - behavioural/state.cpp       : Document / DocumentState              *)
(*   - behavioural/observer.cpp    : Spreadsheet1 and its observers        *)
(*   - behavioural/chainofresponsibility.cpp : the chain of Handlers       *)
(*   - behavioural/command.cpp     : RemoteControl and its Commands        *)
(*   - behavioural/template.cpp    : CaffeineBeverage::prepareRecipe       *)
(*   - memento.cpp                 : Originator, Memento, Caretaker        *)
(* Each example is a separate program, so each has its own specification   *)
(* (Spec, SpecState, SpecObserver, SpecChain, SpecCommand, SpecTemplate,   *)
(* SpecMemento) over its own variables; the variables of the other         *)
(* programs stay at their initial values.                                  *)
EXTENDS Integers, Sequences, FiniteSets, TLC

VARIABLES
  \* ---- interpreter.cpp ----
  expr,      \* parse's argument: the input string, a sequence of characters
  iss,       \* istringstream iss(expr): read position, eofbit, failbit
  num,       \* int num: [set, val]; set = FALSE while still uninitialized
  terms,     \* vector<unique_ptr<Expression>> terms: node ids, NULL once moved from
  ops,       \* vector<char> ops
  result,    \* unique_ptr<Expression> result (parse's local)
  i,         \* the tree-building loop's index (0-based, as in the code)
  heap,      \* the Expression objects allocated so far, by id
  tree,      \* the caller's unique_ptr (tree1 / tree2 in main)
  pc,        \* where the program is
  stack,     \* the call stack of interpret()
  returned,  \* the values interpret() has returned to the caller, in order
  \* ---- state.cpp ----
  state,     \* Document::state, by the name() of the state object
  docOut,    \* the lines publish() has printed, as <<state tag, message>>
  \* ---- observer.cpp ----
  observers, \* Spreadsheet1::observers
  data,      \* Spreadsheet1::data
  obsOut,    \* the lines the observers' update() printed: <<observer, data read>>
  detached,  \* the observers detach() has been called with so far
  \* ---- chainofresponsibility.cpp ----
  next,      \* Handler::next of each handler
  request,   \* the HttpRequest being handled
  running,   \* the handler whose handle() is about to run, "none" outside a call
  chainOut,  \* the lines printed for the request: <<handler, line>>
  \* ---- command.cpp ----
  onCommands,  \* RemoteControl::onCommands: commands, NULL where empty
  offCommands, \* RemoteControl::offCommands
  made,        \* the Command objects created so far: the class of each
  remoteOut,   \* what each button press did: the command run, the line printed
  passed,      \* history: the commands last passed to setCommand, per slot
  \* ---- template.cpp ----
  beverage,  \* the object prepareRecipe() runs on
  step,      \* where prepareRecipe() is
  wants,     \* what customerWantsCondiments() returned
  recipeOut, \* the steps performed by that call so far, and the line of each
  cin,       \* standard input: the characters not yet read
  \* ---- memento.cpp ----
  originator, \* Originator::state
  mementos,   \* Caretaker::mementos
  thrown,     \* whether getMemento has thrown out of main
  taken,      \* history: the originator's state when each memento was saved
  restored    \* history: the index the latest call restored from, or -1

varsI == <<expr, iss, num, terms, ops, result, i, heap, tree, pc, stack, returned>>
varsS == <<state, docOut>>
varsO == <<observers, data, obsOut, detached>>
varsC == <<next, request, running, chainOut>>
varsR == <<onCommands, offCommands, made, remoteOut, passed>>
varsT == <<beverage, step, wants, recipeOut, cin>>
varsM == <<originator, mementos, thrown, taken, restored>>
varsX == <<varsC, varsR, varsT, varsM>>
vars  == <<varsI, varsS, varsO, varsX>>

-----------------------------------------------------------------------------
(* Bounds of the model                                                     *)

MaxLen == 4       \* longest input drawn character by character
MaxTokens == 5    \* most tokens of an input drawn token by token
MaxEvals == 2     \* interpret() calls on one tree
MaxPublish == 5   \* publish() calls on one Document
MaxAttached == 3  \* entries of Spreadsheet1::observers
MaxLines == 6     \* lines printed for one request
MaxSlot == 1      \* largest slot given to setCommand
MaxMade == 2      \* Command objects created
MaxPresses == 2   \* button presses
MaxInput == 3     \* characters on standard input
MaxMementos == 3  \* mementos kept by the caretaker

-----------------------------------------------------------------------------
(* interpreter.cpp: the input stream                                       *)

NULL == 0

IntMax == 2147483647

Digits == {"0", "1", "2", "3", "4", "5", "6", "7", "8", "9"}

DigitValue(c) ==
  CASE c = "0" -> 0 [] c = "1" -> 1 [] c = "2" -> 2 [] c = "3" -> 3
    [] c = "4" -> 4 [] c = "5" -> 5 [] c = "6" -> 6 [] c = "7" -> 7
    [] c = "8" -> 8 [] c = "9" -> 9

\* Characters that inputs are drawn from, character by character.
Chars == {"1", "2", "+", "-", " ", "x"}

\* Tokens that inputs are drawn from, token by token.
Vocabulary == {<<"1">>, <<"2">>, <<"+">>, <<"-">>, <<"x">>}

RECURSIVE Join(_)
Join(ts) ==
  IF Len(ts) = 0 THEN <<>>
  ELSE IF Len(ts) = 1 THEN ts[1]
  ELSE ts[1] \o <<" ">> \o Join(Tail(ts))

\* The strings main passes to parse, the spec's other examples, and a few
\* longer inputs (two-digit and signed numbers, three operators, a foreign
\* operator, missing operands).
Examples ==
  { <<"5", " ", "+", " ", "3", " ", "-", " ", "2">>,
    <<"1", "0", " ", "-", " ", "4", " ", "+", " ", "2">>,
    <<"7">>,
    <<"5", " ", "+", " ">>,
    <<"5", " ", "+", " ", "x">>,
    <<"5", " ", "*", " ", "3", " ", "+", " ", "2">>,
    <<"1", " ", "-", " ", "-", "2", " ", "+", " ", "4">>,
    <<"9", " ", "-", " ", "1", " ", "-", " ", "2", " ", "-", " ", "3">> }

Inputs ==
  UNION {[1..n -> Chars] : n \in 0..MaxLen}
    \cup {Join(ts) : ts \in UNION {[1..n -> Vocabulary] : n \in 1..MaxTokens}}
    \cup Examples

\* What an uninitialized int may hold when it is read.
Indeterminate == {-7, 0, 3}

\* The sentry's whitespace skip: the first position at or after p that
\* holds no whitespace.
RECURSIVE SkipWs(_, _)
SkipWs(s, p) ==
  IF p <= Len(s) /\ s[p] = " " THEN SkipWs(s, p + 1) ELSE p

\* The first position at or after p that holds no digit.
RECURSIVE DigitsEnd(_, _)
DigitsEnd(s, p) ==
  IF p <= Len(s) /\ s[p] \in Digits THEN DigitsEnd(s, p + 1) ELSE p

\* The decimal value of s[p..q-1], continuing from acc.
RECURSIVE DigitsValue(_, _, _, _)
DigitsValue(s, p, q, acc) ==
  IF p >= q THEN acc
  ELSE DigitsValue(s, p + 1, q, 10 * acc + DigitValue(s[p]))

\* iss >> num. A stream that is not good() only gets failbit; a stream
\* that ends while whitespace is skipped gets eofbit and failbit. In both
\* cases the sentry fails and num is left as it was. Otherwise num_get
\* reads an optional sign and digits: with no digit it stores 0 and sets
\* failbit; a value out of int's range is clamped and sets failbit.
ExtractInt(s, st, n) ==
  IF st.eof \/ st.fail
  THEN [st |-> [st EXCEPT !.fail = TRUE], num |-> n]
  ELSE
    LET p == SkipWs(s, st.pos) IN
    IF p > Len(s)
    THEN [st |-> [pos |-> p, eof |-> TRUE, fail |-> TRUE], num |-> n]
    ELSE
      LET d   == IF s[p] \in {"+", "-"} THEN p + 1 ELSE p
          e   == DigitsEnd(s, d)
          mag == DigitsValue(s, d, e, 0)
          v   == IF s[p] = "-" THEN -mag ELSE mag
      IN  IF e = d
          THEN [st  |-> [pos |-> e, eof |-> e > Len(s), fail |-> TRUE],
                num |-> [set |-> TRUE, val |-> 0]]
          ELSE IF v > IntMax
          THEN [st  |-> [pos |-> e, eof |-> e > Len(s), fail |-> TRUE],
                num |-> [set |-> TRUE, val |-> IntMax]]
          ELSE IF v < -IntMax - 1
          THEN [st  |-> [pos |-> e, eof |-> e > Len(s), fail |-> TRUE],
                num |-> [set |-> TRUE, val |-> -IntMax - 1]]
          ELSE [st  |-> [pos |-> e, eof |-> e > Len(s), fail |-> FALSE],
                num |-> [set |-> TRUE, val |-> v]]

\* iss >> op, for a char: skips whitespace and takes one character.
\* ok is the stream's truth value afterwards (!fail()).
ExtractChar(s, st) ==
  IF st.eof \/ st.fail
  THEN [st |-> [st EXCEPT !.fail = TRUE], ok |-> FALSE, op |-> " "]
  ELSE
    LET p == SkipWs(s, st.pos) IN
    IF p > Len(s)
    THEN [st |-> [pos |-> p, eof |-> TRUE, fail |-> TRUE], ok |-> FALSE, op |-> " "]
    ELSE [st |-> [pos |-> p + 1, eof |-> FALSE, fail |-> FALSE], ok |-> TRUE, op |-> s[p]]

-----------------------------------------------------------------------------
(* interpreter.cpp: the expression classes                                 *)

NumberExpression(n) ==
  [kind |-> "Number", number |-> n, left |-> NULL, right |-> NULL]

\* The operands stored the wrong way round.
AddExpression_swapped(l, r) ==
  [kind |-> "Add", number |-> 0, left |-> r, right |-> l]

AddExpression(l, r) ==
  [kind |-> "Add", number |-> 0, left |-> l, right |-> r]

\* The operands stored the wrong way round.
SubtractExpression_swapped(l, r) ==
  [kind |-> "Subtract", number |-> 0, left |-> r, right |-> l]

SubtractExpression(l, r) ==
  [kind |-> "Subtract", number |-> 0, left |-> l, right |-> r]

\* A destroyed object: what a unique_ptr's destructor leaves behind.
Destroyed ==
  [kind |-> "destroyed", number |-> 0, left |-> NULL, right |-> NULL]

\* ~vector<unique_ptr<Expression>>: every term still owned is destroyed.
DestroyTerms(h, ts) ==
  [id \in 1..Len(h) |->
     IF \E j \in 1..Len(ts) : ts[j] = id THEN Destroyed ELSE h[id]]


NumberExpression_interpret(n) == n.number

AddExpression_interpret(l, r) == l + r

\* AddExpression::interpret copied without changing the operator.
SubtractExpression_interpret_adds(l, r) == l + r

SubtractExpression_interpret(l, r) == l - r

-----------------------------------------------------------------------------
(* interpreter.cpp: parse                                                  *)

InitInterp ==
  /\ expr \in Inputs
  /\ iss = [pos |-> 1, eof |-> FALSE, fail |-> FALSE]
  /\ num = [set |-> FALSE, val |-> 0]
  /\ terms = <<>>
  /\ ops = <<>>
  /\ result = NULL
  /\ i = 0
  /\ heap = <<>>
  /\ tree = NULL
  /\ pc = "parse"
  /\ stack = <<>>
  /\ returned = <<>>

\* Lines 86-91: the first number. num is read for the NumberExpression
\* whether or not the extraction stored anything in it.
ParseBegin ==
  /\ pc = "parse"
  /\ LET r == ExtractInt(expr, iss, num) IN
       \E n \in (IF r.num.set THEN {r.num.val} ELSE Indeterminate) :
         /\ iss' = r.st
         /\ num' = r.num
         /\ heap' = Append(heap, NumberExpression(n))
         /\ terms' = Append(terms, Len(heap) + 1)
  /\ pc' = "scan"
  /\ UNCHANGED <<varsS, varsO, varsX, expr, ops, result, i, tree, stack, returned>>

\* The term pushed only when iss >> num succeeded.
ScanTerm_checked ==
  /\ pc = "scan"
  /\ LET c == ExtractChar(expr, iss)
         r == ExtractInt(expr, c.st, num)
     IN  /\ c.ok
         /\ ops' = Append(ops, c.op)
         /\ iss' = r.st
         /\ num' = r.num
         /\ IF r.st.fail
            THEN UNCHANGED <<heap, terms>>
            ELSE /\ heap' = Append(heap, NumberExpression(r.num.val))
                 /\ terms' = Append(terms, Len(heap) + 1)
  /\ UNCHANGED <<varsS, varsO, varsX, expr, result, i, tree, pc, stack, returned>>

\* Lines 93-98: one turn of the while loop, entered when iss >> op succeeds.
ScanTerm ==
  /\ pc = "scan"
  /\ LET c == ExtractChar(expr, iss)
         r == ExtractInt(expr, c.st, num)
     IN  /\ c.ok
         /\ ops' = Append(ops, c.op)
         /\ iss' = r.st
         /\ num' = r.num
         /\ heap' = Append(heap, NumberExpression(r.num.val))
         /\ terms' = Append(terms, Len(heap) + 1)
  /\ UNCHANGED <<varsS, varsO, varsX, expr, result, i, tree, pc, stack, returned>>

\* Lines 93 and 100: iss >> op fails, the loop ends, and terms[0] is moved
\* into result.
ScanEnd ==
  /\ pc = "scan"
  /\ LET c == ExtractChar(expr, iss)
     IN  /\ ~c.ok
         /\ iss' = c.st
  /\ result' = terms[1]
  /\ terms' = [terms EXCEPT ![1] = NULL]
  /\ i' = 0
  /\ pc' = "build"
  /\ UNCHANGED <<varsS, varsO, varsX, expr, num, ops, heap, tree, stack, returned>>

\* terms[i] in place of terms[i + 1].
NextTerm_offByOne == i + 1

\* Lines 105, 109: the index i + 1 of terms[i + 1]; sequences being
\* 1-based, the code's terms[i + 1] is terms[i + 2] here.
NextTerm == i + 2

\* A plain else in place of "else if (ops[i] == '-')".
BuildNode_elseSubtract ==
  /\ pc = "build"
  /\ i < Len(ops)
  /\ \/ /\ ops[i + 1] = "+"
        /\ heap' = Append(heap, AddExpression(result, terms[NextTerm]))
     \/ /\ ops[i + 1] # "+"
        /\ heap' = Append(heap, SubtractExpression(result, terms[NextTerm]))
  /\ result' = Len(heap) + 1
  /\ terms' = [terms EXCEPT ![NextTerm] = NULL]
  /\ i' = i + 1
  /\ UNCHANGED <<varsS, varsO, varsX, expr, iss, num, ops, tree, pc, stack, returned>>

\* Lines 101-111: one turn of the for loop.
BuildNode ==
  /\ pc = "build"
  /\ i < Len(ops)
  /\ \/ /\ ops[i + 1] = "+"
        /\ heap' = Append(heap, AddExpression(result, terms[NextTerm]))
        /\ result' = Len(heap) + 1
        /\ terms' = [terms EXCEPT ![NextTerm] = NULL]
     \/ /\ ops[i + 1] = "-"
        /\ heap' = Append(heap, SubtractExpression(result, terms[NextTerm]))
        /\ result' = Len(heap) + 1
        /\ terms' = [terms EXCEPT ![NextTerm] = NULL]
     \/ /\ ops[i + 1] \notin {"+", "-"}
        /\ UNCHANGED <<heap, result, terms>>
  /\ i' = i + 1
  /\ UNCHANGED <<varsS, varsO, varsX, expr, iss, num, ops, tree, pc, stack, returned>>

\* Line 112 and the caller's "auto tree = parse(...)": result goes to the
\* caller; terms and ops are destroyed, and with terms the nodes it still
\* owns.
ParseReturn ==
  /\ pc = "build"
  /\ i >= Len(ops)
  /\ tree' = result
  /\ result' = NULL
  /\ heap' = DestroyTerms(heap, terms)
  /\ terms' = <<>>
  /\ ops' = <<>>
  /\ pc' = "done"
  /\ UNCHANGED <<varsS, varsO, varsX, expr, iss, num, i, stack, returned>>

-----------------------------------------------------------------------------
(* interpreter.cpp: interpret(), as the call stack it builds. A frame is   *)
(* one call: its object, and for each operand whether its interpret() is   *)
(* still to be called ("todo"), running ("busy") or has returned ("done")  *)
(* with a value. The order in which an Add/Subtract node evaluates its two *)
(* operands is the compiler's choice.                                      *)

Frame(id) ==
  [node |-> id, ls |-> "todo", lv |-> 0, rs |-> "todo", rv |-> 0]

\* p->interpret() is defined only for a live object.
Live(id) == id # NULL /\ id \in 1..Len(heap) /\ heap[id].kind # "destroyed"

Top == stack[Len(stack)]

\* The callee's frame is popped and v handed to the caller: to main when
\* the stack empties, else to the operand slot that was busy.
Return(v) ==
  IF Len(stack) = 1
  THEN /\ stack' = <<>>
       /\ returned' = Append(returned, v)
       /\ pc' = "done"
  ELSE LET caller == stack[Len(stack) - 1]
           resumed == IF caller.ls = "busy"
                      THEN [caller EXCEPT !.ls = "done", !.lv = v]
                      ELSE [caller EXCEPT !.rs = "done", !.rv = v]
       IN  /\ stack' = Append(SubSeq(stack, 1, Len(stack) - 2), resumed)
           /\ UNCHANGED <<returned, pc>>

\* Lines 121, 125: tree->interpret() in main.
InterpretCall ==
  /\ pc = "done"
  /\ Len(returned) < MaxEvals
  /\ IF Live(tree)
     THEN /\ stack' = <<Frame(tree)>>
          /\ pc' = "eval"
     ELSE /\ pc' = "crash"
          /\ UNCHANGED stack
  /\ UNCHANGED <<varsS, varsO, varsX, expr, iss, num, terms, ops, result, i, heap, tree, returned>>

\* An interpret() that consumes the literal it returns.
ReturnNumber_consuming ==
  /\ pc = "eval"
  /\ heap[Top.node].kind = "Number"
  /\ Return(NumberExpression_interpret(heap[Top.node]))
  /\ heap' = [heap EXCEPT ![Top.node].number = 0]
  /\ UNCHANGED <<varsS, varsO, varsX, expr, iss, num, terms, ops, result, i, tree>>

\* Lines 49-52.
ReturnNumber ==
  /\ pc = "eval"
  /\ heap[Top.node].kind = "Number"
  /\ Return(NumberExpression_interpret(heap[Top.node]))
  /\ UNCHANGED <<varsS, varsO, varsX, expr, iss, num, terms, ops, result, i, heap, tree>>

\* interpret() called on the node itself instead of on its left operand.
CallLeft_self ==
  /\ pc = "eval"
  /\ heap[Top.node].kind \in {"Add", "Subtract"}
  /\ Top.ls = "todo"
  /\ Top.rs # "busy"
  /\ stack' = Append([stack EXCEPT ![Len(stack)].ls = "busy"], Frame(Top.node))
  /\ UNCHANGED <<varsS, varsO, varsX, expr, iss, num, terms, ops, result, i, heap, tree, returned, pc>>

\* Lines 65, 79: left->interpret().
CallLeft ==
  /\ pc = "eval"
  /\ heap[Top.node].kind \in {"Add", "Subtract"}
  /\ Top.ls = "todo"
  /\ Top.rs # "busy"
  /\ IF Live(heap[Top.node].left)
     THEN /\ stack' = Append([stack EXCEPT ![Len(stack)].ls = "busy"],
                             Frame(heap[Top.node].left))
          /\ UNCHANGED pc
     ELSE /\ pc' = "crash"
          /\ UNCHANGED stack
  /\ UNCHANGED <<varsS, varsO, varsX, expr, iss, num, terms, ops, result, i, heap, tree, returned>>

\* Lines 65, 79: right->interpret().
CallRight ==
  /\ pc = "eval"
  /\ heap[Top.node].kind \in {"Add", "Subtract"}
  /\ Top.rs = "todo"
  /\ Top.ls # "busy"
  /\ IF Live(heap[Top.node].right)
     THEN /\ stack' = Append([stack EXCEPT ![Len(stack)].rs = "busy"],
                             Frame(heap[Top.node].right))
          /\ UNCHANGED pc
     ELSE /\ pc' = "crash"
          /\ UNCHANGED stack
  /\ UNCHANGED <<varsS, varsO, varsX, expr, iss, num, terms, ops, result, i, heap, tree, returned>>

\* Lines 65, 79: both operands have returned.
ReturnBinary ==
  /\ pc = "eval"
  /\ heap[Top.node].kind \in {"Add", "Subtract"}
  /\ Top.ls = "done"
  /\ Top.rs = "done"
  /\ Return(IF heap[Top.node].kind = "Add"
            THEN AddExpression_interpret(Top.lv, Top.rv)
            ELSE SubtractExpression_interpret(Top.lv, Top.rv))
  /\ UNCHANGED <<varsS, varsO, varsX, expr, iss, num, terms, ops, result, i, heap, tree>>

interpret == InterpretCall \/ ReturnNumber \/ CallLeft \/ CallRight \/ ReturnBinary

-----------------------------------------------------------------------------
(* state.cpp                                                               *)

UserRole == {"Editor", "Moderator", "Admin"}

InitState ==
  /\ state = "Draft"
  /\ docOut = <<>>

\* Document::setState, with the line the state printed before calling it.
setState(newState, line) ==
  /\ state' = newState
  /\ docOut' = Append(docOut, <<state, line>>)

\* A branch that only prints.
Refuse(line) ==
  /\ docOut' = Append(docOut, <<state, line>>)
  /\ UNCHANGED state

DraftState_publish(user) ==
  IF user = "Editor" THEN setState("Under Review", "Editor submits for review.")
  ELSE IF user = "Admin" THEN setState("Published", "Admin publishes directly.")
  ELSE Refuse("Only Editor or Admin can publish.")

UnderReviewState_publish(user) ==
  IF user = "Moderator" THEN setState("Published", "Moderator approves and publishes.")
  ELSE IF user = "Admin" THEN setState("Published", "Admin publishes.")
  ELSE Refuse("Only Moderator or Admin can publish.")

\* The role check widened to Moderator.
PublishedState_publish_moderator(user) ==
  IF user \in {"Admin", "Moderator"}
  THEN setState("Archived", "Admin archives the document.")
  ELSE Refuse("Only Admin can archive.")

PublishedState_publish(user) ==
  IF user = "Admin" THEN setState("Archived", "Admin archives the document.")
  ELSE Refuse("Only Admin can archive.")

\* An Admin may reopen an archived document.
ArchivedState_publish_reopens(user) ==
  IF user = "Admin" THEN setState("Draft", "Admin reopens the document.")
  ELSE Refuse("No further actions allowed.")

ArchivedState_publish(user) ==
  Refuse("No further actions allowed.")

\* Document::publish: state->publish(*this, user), a virtual call.
Document_publish(user) ==
  /\ Len(docOut) < MaxPublish
  /\ CASE state = "Draft"        -> DraftState_publish(user)
       [] state = "Under Review" -> UnderReviewState_publish(user)
       [] state = "Published"    -> PublishedState_publish(user)
       [] state = "Archived"     -> ArchivedState_publish(user)

publish ==
  /\ \E user \in UserRole : Document_publish(user)
  /\ UNCHANGED <<varsI, varsO, varsX>>

-----------------------------------------------------------------------------
(* observer.cpp                                                            *)

\* The observers of main: BarChart chart, Spreadsheet2 sheet2.
Observer == {"chart", "sheet2"}

\* The vectors main passes to setData.
DataValues == {<<3, 5, 2>>, <<1, 4, 6, 2>>, <<7, 2>>}

InitObserver ==
  /\ observers = <<>>
  /\ data = <<>>
  /\ obsOut = <<>>
  /\ detached = {}

\* BarChart::update / Spreadsheet2::update: the line printed is made of
\* what sheet.getData() returns when update() runs.
update(o, read) == <<o, read>>

\* Spreadsheet1::notify over the observers, each reading getData() = d.
\* obsOut holds the lines of the latest notify().
notify(d) ==
  obsOut' = [j \in 1..Len(observers) |-> update(observers[j], d)]

\* notify() before the assignment: the observers read the old data.
setData_notifiesFirst(newData) ==
  /\ notify(data)
  /\ data' = newData
  /\ UNCHANGED observers

setData(newData) ==
  /\ data' = newData
  /\ notify(data')
  /\ UNCHANGED observers

attach(o) ==
  /\ Len(observers) < MaxAttached
  /\ observers' = Append(observers, o)
  /\ UNCHANGED <<data, obsOut>>

\* erase(find(begin, end, o)): only the first entry equal to o goes.
detach_firstOnly(o) ==
  /\ observers' =
       (IF \E j \in 1..Len(observers) : observers[j] = o
        THEN LET f == CHOOSE j \in 1..Len(observers) :
                        /\ observers[j] = o
                        /\ \A m \in 1..(j - 1) : observers[m] # o
             IN  SubSeq(observers, 1, f - 1) \o SubSeq(observers, f + 1, Len(observers))
        ELSE observers)
  /\ UNCHANGED <<data, obsOut>>

\* erase(remove(begin, end, o), end): every entry equal to o goes.
detach(o) ==
  /\ observers' = SelectSeq(observers, LAMBDA x : x # o)
  /\ UNCHANGED <<data, obsOut>>

Attach ==
  /\ \E o \in Observer : attach(o)
  /\ UNCHANGED <<detached, varsI, varsS, varsX>>

Detach ==
  /\ \E o \in Observer : detach(o) /\ detached' = detached \cup {o}
  /\ UNCHANGED <<varsI, varsS, varsX>>

SetData ==
  /\ \E d \in DataValues : setData(d)
  /\ UNCHANGED <<detached, varsI, varsS, varsX>>

\* notify() called from outside: it is public.
Notify ==
  /\ notify(data)
  /\ UNCHANGED <<observers, data>>
  /\ UNCHANGED <<detached, varsI, varsS, varsX>>

-----------------------------------------------------------------------------
(* chainofresponsibility.cpp                                               *)

\* The handlers of main: AuthenticationHandler authn, AuthorizationHandler
\* authz, ContentHandler content.
Handlers == {"authn", "authz", "content"}

\* The requests of main, and the same users and pages with the other
\* values of the two flags.
Requests ==
  [username : {"alice", "bob", "carol"}, authenticated : BOOLEAN,
   authorized : BOOLEAN, page : {"home.html", "admin.html"}]

\* Handler() : next(nullptr), for each of the three; no request yet.
InitChain ==
  /\ next = [h \in Handlers |-> "nullptr"]
  /\ request = [username |-> "", authenticated |-> FALSE,
                authorized |-> FALSE, page |-> ""]
  /\ running = "none"
  /\ chainOut = <<>>

\* Handler::setNext.
setNext(h, n) == next' = [next EXCEPT ![h] = n]

\* if (next) next->handle(request): the handler that runs next.
PassOn(h) == IF next[h] = "nullptr" THEN "none" ELSE next[h]

\* The denial printed, and the request passed on all the same.
AuthenticationHandler_handle_fallsThrough(h) ==
  IF request.authenticated
  THEN /\ chainOut' = chainOut \o << <<h, "Checking authentication...">>,
                                     <<h, "is authenticated.">> >>
       /\ running' = PassOn(h)
  ELSE /\ chainOut' = chainOut \o << <<h, "Checking authentication...">>,
                                     <<h, "Access denied: User is not authenticated.">> >>
       /\ running' = PassOn(h)

\* Lines 65-78, up to the call of next->handle.
AuthenticationHandler_handle(h) ==
  IF request.authenticated
  THEN /\ chainOut' = chainOut \o << <<h, "Checking authentication...">>,
                                     <<h, "is authenticated.">> >>
       /\ running' = PassOn(h)
  ELSE /\ chainOut' = chainOut \o << <<h, "Checking authentication...">>,
                                     <<h, "Access denied: User is not authenticated.">> >>
       /\ running' = "none"

\* The denial printed, and the request passed on all the same.
AuthorizationHandler_handle_fallsThrough(h) ==
  IF request.authorized
  THEN /\ chainOut' = chainOut \o << <<h, "Checking authorization...">>,
                                     <<h, "is authorized to access">> >>
       /\ running' = PassOn(h)
  ELSE /\ chainOut' = chainOut \o << <<h, "Checking authorization...">>,
                                     <<h, "Access denied: User is not authorized to access">> >>
       /\ running' = PassOn(h)

\* Lines 85-98, up to the call of next->handle.
AuthorizationHandler_handle(h) ==
  IF request.authorized
  THEN /\ chainOut' = chainOut \o << <<h, "Checking authorization...">>,
                                     <<h, "is authorized to access">> >>
       /\ running' = PassOn(h)
  ELSE /\ chainOut' = chainOut \o << <<h, "Checking authorization...">>,
                                     <<h, "Access denied: User is not authorized to access">> >>
       /\ running' = "none"

\* Lines 105-108.
ContentHandler_handle(h) ==
  /\ chainOut' = Append(chainOut, <<h, "Serving page">>)
  /\ running' = "none"

\* main, lines 117-118: the chain is set up before the first request.
SetNext ==
  /\ running = "none"
  /\ chainOut = <<>>
  /\ \E h \in Handlers, n \in Handlers \cup {"nullptr"} : setNext(h, n)
  /\ UNCHANGED <<request, running, chainOut>>
  /\ UNCHANGED <<varsI, varsS, varsO, varsR, varsT, varsM>>

\* main, lines 126-132: h.handle(req), for any handler and request.
HandleCall ==
  /\ running = "none"
  /\ \E h \in Handlers, r \in Requests :
       /\ request' = r
       /\ running' = h
  /\ chainOut' = <<>>
  /\ UNCHANGED next
  /\ UNCHANGED <<varsI, varsS, varsO, varsR, varsT, varsM>>

Authenticate ==
  /\ running = "authn"
  /\ Len(chainOut) < MaxLines
  /\ AuthenticationHandler_handle("authn")
  /\ UNCHANGED <<next, request>>
  /\ UNCHANGED <<varsI, varsS, varsO, varsR, varsT, varsM>>

Authorize ==
  /\ running = "authz"
  /\ Len(chainOut) < MaxLines
  /\ AuthorizationHandler_handle("authz")
  /\ UNCHANGED <<next, request>>
  /\ UNCHANGED <<varsI, varsS, varsO, varsR, varsT, varsM>>

Serve ==
  /\ running = "content"
  /\ Len(chainOut) < MaxLines
  /\ ContentHandler_handle("content")
  /\ UNCHANGED <<next, request>>
  /\ UNCHANGED <<varsI, varsS, varsO, varsR, varsT, varsM>>

-----------------------------------------------------------------------------
(* command.cpp                                                             *)

\* The slots given to setCommand, and to the buttons: one more, which is
\* beyond the range of the vectors whatever was set.
Slots == 0..MaxSlot
ButtonSlots == 0..(MaxSlot + 1)

\* RemoteControl remote: both vectors empty; no Command created.
InitCommand ==
  /\ onCommands = <<>>
  /\ offCommands = <<>>
  /\ made = <<>>
  /\ remoteOut = <<>>
  /\ passed = [s \in ButtonSlots |-> <<NULL, NULL>>]

\* LightOnCommand::execute, LightOffCommand::execute: Light::on, Light::off.
execute(c) ==
  IF made[c] = "LightOnCommand" THEN <<c, <<"Light is ON">> >>
  ELSE <<c, <<"Light is OFF">> >>

\* vector::resize(n) of a vector shorter than n: the new entries are null.
resize(v, n) == [j \in 1..n |-> IF j <= Len(v) THEN v[j] ELSE NULL]

\* The vectors grown to slot entries, one short of the slot.
setCommand_shortResize(slot, onCommand, offCommand) ==
  LET on == IF slot >= Len(onCommands) THEN resize(onCommands, slot) ELSE onCommands
      off == IF slot >= Len(onCommands) THEN resize(offCommands, slot) ELSE offCommands
  IN  /\ onCommands' = [j \in 1..Len(on) |-> IF j = slot THEN onCommand ELSE on[j]]
      /\ offCommands' = [j \in 1..Len(off) |-> IF j = slot THEN offCommand ELSE off[j]]

\* RemoteControl::setCommand; entry slot of the vector is index slot + 1.
setCommand(slot, onCommand, offCommand) ==
  LET on == IF slot >= Len(onCommands) THEN resize(onCommands, slot + 1) ELSE onCommands
      off == IF slot >= Len(onCommands) THEN resize(offCommands, slot + 1) ELSE offCommands
  IN  /\ onCommands' = [on EXCEPT ![slot + 1] = onCommand]
      /\ offCommands' = [off EXCEPT ![slot + 1] = offCommand]

\* RemoteControl::pressOnButton.
pressOnButton(slot) ==
  IF slot < Len(onCommands) /\ onCommands[slot + 1] # NULL
  THEN remoteOut' = Append(remoteOut, execute(onCommands[slot + 1]))
  ELSE remoteOut' = Append(remoteOut, <<NULL, <<"No ON command set for slot ", slot>> >>)

\* RemoteControl::pressOffButton.
pressOffButton(slot) ==
  IF slot < Len(offCommands) /\ offCommands[slot + 1] # NULL
  THEN remoteOut' = Append(remoteOut, execute(offCommands[slot + 1]))
  ELSE remoteOut' = Append(remoteOut, <<NULL, <<"No OFF command set for slot ", slot>> >>)

\* remote.setCommand(slot, on, off): on a newly made LightOnCommand or a
\* null pointer, off a newly made LightOffCommand or a null pointer.
SetCommand ==
  /\ \E slot \in Slots, onClass \in {"LightOnCommand", "nullptr"},
        offClass \in {"LightOffCommand", "nullptr"} :
       LET news == (IF onClass = "nullptr" THEN <<>> ELSE <<onClass>>)
                   \o (IF offClass = "nullptr" THEN <<>> ELSE <<offClass>>)
           on == IF onClass = "nullptr" THEN NULL ELSE Len(made) + 1
           off == IF offClass = "nullptr" THEN NULL ELSE Len(made) + Len(news)
       IN  /\ Len(made) + Len(news) <= MaxMade
           /\ made' = made \o news
           /\ setCommand(slot, on, off)
           /\ passed' = [passed EXCEPT ![slot] = <<on, off>>]
  /\ UNCHANGED remoteOut
  /\ UNCHANGED <<varsI, varsS, varsO, varsC, varsT, varsM>>

PressOn ==
  /\ Len(remoteOut) < MaxPresses
  /\ \E slot \in ButtonSlots : pressOnButton(slot)
  /\ UNCHANGED <<onCommands, offCommands, made, passed>>
  /\ UNCHANGED <<varsI, varsS, varsO, varsC, varsT, varsM>>

PressOff ==
  /\ Len(remoteOut) < MaxPresses
  /\ \E slot \in ButtonSlots : pressOffButton(slot)
  /\ UNCHANGED <<onCommands, offCommands, made, passed>>
  /\ UNCHANGED <<varsI, varsS, varsO, varsC, varsT, varsM>>

-----------------------------------------------------------------------------
(* template.cpp                                                            *)

\* The concrete subclasses of CaffeineBeverage.
Beverages == {"Tea", "Coffee", "HotChocolate"}

\* What the customer may have typed: answers and blanks.
Keys == {"y", "Y", "n", " "}

RECURSIVE Typed(_)
Typed(n) ==
  IF n = 0 THEN {<<>>}
  ELSE Typed(n - 1) \cup {Append(t, k) : t \in Typed(n - 1), k \in Keys}

\* main before the first prepareRecipe().
NoBeverage ==
  /\ beverage = "none"
  /\ step = "idle"
  /\ wants = FALSE
  /\ recipeOut = <<>>

InitTemplate == NoBeverage /\ cin = <<>>

\* The body of prepareRecipe with addCondiments outside the if.
prepareRecipe_unconditional(at, hook) ==
  CASE at = "boilWater" -> "brew"
    [] at = "brew" -> "pourInCup"
    [] at = "pourInCup" -> "customerWantsCondiments"
    [] at = "customerWantsCondiments" -> "addCondiments"
    [] at = "addCondiments" -> "idle"

\* CaffeineBeverage::prepareRecipe: the statement that follows statement at,
\* hook being what customerWantsCondiments() returned.
prepareRecipe(at, hook) ==
  CASE at = "boilWater" -> "brew"
    [] at = "brew" -> "pourInCup"
    [] at = "pourInCup" -> "customerWantsCondiments"
    [] at = "customerWantsCondiments" -> IF hook THEN "addCondiments" ELSE "idle"
    [] at = "addCondiments" -> "idle"

\* Tea::brew, Coffee::brew, HotChocolate::brew.
brew(b) ==
  CASE b = "Tea" -> "Steeping the tea"
    [] b = "Coffee" -> "Dripping coffee through filter"
    [] b = "HotChocolate" -> "Mixing hot chocolate powder"

\* Tea::addCondiments, Coffee::addCondiments, HotChocolate::addCondiments.
addCondiments(b) ==
  CASE b = "Tea" -> "Adding lemon"
    [] b = "Coffee" -> "Adding sugar and milk"
    [] b = "HotChocolate" -> "Adding whipped cream"

\* cin >> answer: blanks are skipped, then one character is read.
RECURSIVE SkipBlanks(_)
SkipBlanks(in) ==
  IF in # <<>> /\ Head(in) = " " THEN SkipBlanks(Tail(in)) ELSE in

\* b.prepareRecipe(), b any of the three beverages.
PrepareRecipe ==
  /\ step = "idle"
  /\ \E b \in Beverages : beverage' = b
  /\ step' = "boilWater"
  /\ recipeOut' = <<>>
  /\ UNCHANGED <<wants, cin>>
  /\ UNCHANGED <<varsI, varsS, varsO, varsC, varsR, varsM>>

BoilWater ==
  /\ step = "boilWater"
  /\ recipeOut' = Append(recipeOut, <<"boilWater", "Boiling water">>)
  /\ step' = prepareRecipe(step, wants)
  /\ UNCHANGED <<beverage, wants, cin>>
  /\ UNCHANGED <<varsI, varsS, varsO, varsC, varsR, varsM>>

Brew ==
  /\ step = "brew"
  /\ recipeOut' = Append(recipeOut, <<"brew", brew(beverage)>>)
  /\ step' = prepareRecipe(step, wants)
  /\ UNCHANGED <<beverage, wants, cin>>
  /\ UNCHANGED <<varsI, varsS, varsO, varsC, varsR, varsM>>

PourInCup ==
  /\ step = "pourInCup"
  /\ recipeOut' = Append(recipeOut, <<"pourInCup", "Pouring into cup">>)
  /\ step' = prepareRecipe(step, wants)
  /\ UNCHANGED <<beverage, wants, cin>>
  /\ UNCHANGED <<varsI, varsS, varsO, varsC, varsR, varsM>>

\* CaffeineBeverage::customerWantsCondiments, kept by Tea and Coffee.
DefaultHook ==
  /\ step = "customerWantsCondiments"
  /\ beverage \in {"Tea", "Coffee"}
  /\ wants' = TRUE
  /\ recipeOut' = Append(recipeOut, <<"customerWantsCondiments", "">>)
  /\ step' = prepareRecipe(step, wants')
  /\ UNCHANGED <<beverage, cin>>
  /\ UNCHANGED <<varsI, varsS, varsO, varsC, varsR, varsM>>

\* HotChocolate::customerWantsCondiments. When the input has ended nothing
\* is stored in answer, which is then read uninitialized: either result.
AskHook ==
  /\ step = "customerWantsCondiments"
  /\ beverage = "HotChocolate"
  /\ LET in == SkipBlanks(cin)
     IN  IF in = <<>>
         THEN /\ cin' = <<>>
              /\ wants' \in BOOLEAN
         ELSE /\ cin' = Tail(in)
              /\ wants' = (Head(in) = "y" \/ Head(in) = "Y")
  /\ recipeOut' = Append(recipeOut, <<"customerWantsCondiments",
                                      "Would you like whipped cream (y/n)? ">>)
  /\ step' = prepareRecipe(step, wants')
  /\ UNCHANGED beverage
  /\ UNCHANGED <<varsI, varsS, varsO, varsC, varsR, varsM>>

AddCondiments ==
  /\ step = "addCondiments"
  /\ recipeOut' = Append(recipeOut, <<"addCondiments", addCondiments(beverage)>>)
  /\ step' = prepareRecipe(step, wants)
  /\ UNCHANGED <<beverage, wants, cin>>
  /\ UNCHANGED <<varsI, varsS, varsO, varsC, varsR, varsM>>

-----------------------------------------------------------------------------
(* memento.cpp                                                             *)

\* The states main sets.
States == {"State #1", "State #2", "State #3"}

\* Originator originator; Caretaker caretaker: an empty string, no memento.
InitMemento ==
  /\ originator = ""
  /\ mementos = <<>>
  /\ thrown = FALSE
  /\ taken = <<>>
  /\ restored = -1

\* Memento::Memento: the string is copied into the memento.
Memento(s) == [state |-> s]

\* Memento::getState.
Memento_getState(m) == m.state

\* Originator::setState.
Originator_setState(s) == originator' = s

\* Originator::saveToMemento.
saveToMemento == Memento(originator)

\* The memento read and the state left as it was.
restoreFromMemento_dropped(m) == originator' = originator

\* Originator::restoreFromMemento.
restoreFromMemento(m) == originator' = Memento_getState(m)

\* Caretaker::addMemento.
addMemento(m) == mementos' = Append(mementos, m)

\* Caretaker::getMemento: mementos.at(index), for an index at() accepts.
getMemento(index) == mementos[index + 1]

\* originator.setState(s)
SetState ==
  /\ ~thrown
  /\ \E s \in States : Originator_setState(s)
  /\ restored' = -1
  /\ UNCHANGED <<mementos, thrown, taken>>
  /\ UNCHANGED <<varsI, varsS, varsO, varsC, varsR, varsT>>

\* caretaker.addMemento(originator.saveToMemento())
Save ==
  /\ ~thrown
  /\ Len(mementos) < MaxMementos
  /\ addMemento(saveToMemento)
  /\ taken' = Append(taken, originator)
  /\ restored' = -1
  /\ UNCHANGED <<originator, thrown>>
  /\ UNCHANGED <<varsI, varsS, varsO, varsC, varsR, varsT>>

\* originator.restoreFromMemento(caretaker.getMemento(index))
Restore ==
  /\ ~thrown
  /\ \E index \in 0..(Len(mementos) - 1) :
       /\ restoreFromMemento(getMemento(index))
       /\ restored' = index
  /\ UNCHANGED <<mementos, thrown, taken>>
  /\ UNCHANGED <<varsI, varsS, varsO, varsC, varsR, varsT>>

\* caretaker.getMemento(index) with index >= mementos.size(): at() throws
\* std::out_of_range, nothing catches it, and the program ends.
RestoreThrows ==
  /\ ~thrown
  /\ thrown' = TRUE
  /\ restored' = -1
  /\ UNCHANGED <<originator, mementos, taken>>
  /\ UNCHANGED <<varsI, varsS, varsO, varsC, varsR, varsT>>

-----------------------------------------------------------------------------
(* The specifications                                                      *)

\* The interpreter program before it is given anything to do.
IdleInterp ==
  /\ expr = <<>>
  /\ iss = [pos |-> 1, eof |-> FALSE, fail |-> FALSE]
  /\ num = [set |-> FALSE, val |-> 0]
  /\ terms = <<>>
  /\ ops = <<>>
  /\ result = NULL
  /\ i = 0
  /\ heap = <<>>
  /\ tree = NULL
  /\ pc = "idle"
  /\ stack = <<>>
  /\ returned = <<>>

\* The programs modelled after the first three, before they do anything.
InitOthers == InitChain /\ InitCommand /\ InitTemplate /\ InitMemento

\* interpreter.cpp: parse on any input, then interpret() on its tree.
Init == InitInterp /\ InitState /\ InitObserver /\ InitOthers

Next ==
  \/ ParseBegin
  \/ ScanTerm
  \/ ScanEnd
  \/ BuildNode
  \/ ParseReturn
  \/ InterpretCall
  \/ ReturnNumber
  \/ CallLeft
  \/ CallRight
  \/ ReturnBinary

Spec == Init /\ [][Next]_vars

\* interpret() is an ordinary call: once made, it runs on to its return.
FairSpec == Spec /\ WF_vars(interpret)

\* state.cpp: one Document and any sequence of publish calls.
InitDocument == IdleInterp /\ InitState /\ InitObserver /\ InitOthers

NextState == publish

SpecState == InitDocument /\ [][NextState]_vars

\* observer.cpp: one Spreadsheet1 and any sequence of calls on it.
InitSheet == IdleInterp /\ InitState /\ InitObserver /\ InitOthers

NextObserver == Attach \/ Detach \/ SetData \/ Notify

SpecObserver == InitSheet /\ [][NextObserver]_vars

\* chainofresponsibility.cpp: any chain set up, then any requests.
InitHandlers == IdleInterp /\ InitState /\ InitObserver /\ InitOthers

NextChain == SetNext \/ HandleCall \/ Authenticate \/ Authorize \/ Serve

SpecChain == InitHandlers /\ [][NextChain]_vars

\* command.cpp: any calls of setCommand and presses of the buttons.
InitRemote == IdleInterp /\ InitState /\ InitObserver /\ InitOthers

NextCommand == SetCommand \/ PressOn \/ PressOff

SpecCommand == InitRemote /\ [][NextCommand]_vars

\* template.cpp: any beverages prepared, whatever was typed.
InitBeverages ==
  /\ IdleInterp /\ InitState /\ InitObserver
  /\ InitChain /\ InitCommand /\ InitMemento
  /\ NoBeverage
  /\ cin \in Typed(MaxInput)

NextTemplate ==
  \/ PrepareRecipe
  \/ BoilWater
  \/ Brew
  \/ PourInCup
  \/ DefaultHook
  \/ AskHook
  \/ AddCondiments

SpecTemplate == InitBeverages /\ [][NextTemplate]_vars

\* memento.cpp: any states set, saved and restored.
InitCaretaker == IdleInterp /\ InitState /\ InitObserver /\ InitOthers

NextMemento == SetState \/ Save \/ Restore \/ RestoreThrows

SpecMemento == InitCaretaker /\ [][NextMemento]_vars

-----------------------------------------------------------------------------
(* The grammar of section 4.1, NUMBER (('+'|'-') NUMBER)* with tokens      *)
(* separated by whitespace, read off the input independently of parse: the *)
(* reference the properties below compare parse and interpret against.     *)

\* The whitespace-separated tokens of s[p..], cur being the token begun.
RECURSIVE TokensFrom(_, _, _)
TokensFrom(s, p, cur) ==
  IF p > Len(s) THEN (IF cur = <<>> THEN <<>> ELSE <<cur>>)
  ELSE IF s[p] = " "
       THEN (IF cur = <<>> THEN <<>> ELSE <<cur>>) \o TokensFrom(s, p + 1, <<>>)
       ELSE TokensFrom(s, p + 1, Append(cur, s[p]))

Tokens(s) == TokensFrom(s, 1, <<>>)

AllDigits(t) == Len(t) >= 1 /\ \A j \in 1..Len(t) : t[j] \in Digits

\* An integer literal: digits, or '-' and digits.
IsNumber(t) ==
  \/ AllDigits(t)
  \/ Len(t) >= 2 /\ t[1] = "-" /\ AllDigits(Tail(t))

IsOperator(t) == t \in {<<"+">>, <<"-">>}

NumberValue(t) ==
  IF t[1] = "-" THEN -DigitsValue(t, 2, Len(t) + 1, 0)
  ELSE DigitsValue(t, 1, Len(t) + 1, 0)

WellFormed(s) ==
  LET ts == Tokens(s) IN
    /\ Len(ts) % 2 = 1
    /\ \A j \in 1..Len(ts) :
         IF j % 2 = 1 THEN IsNumber(ts[j]) ELSE IsOperator(ts[j])

\* k: the operators of a well-formed input.
OperatorCount(s) == (Len(Tokens(s)) - 1) \div 2

\* ((N0 op1 N1) op2 N2) ... over the first m tokens (m odd).
RECURSIVE LeftFold(_, _)
LeftFold(ts, m) ==
  IF m = 1 THEN NumberValue(ts[1])
  ELSE IF ts[m - 1] = <<"+">>
       THEN LeftFold(ts, m - 2) + NumberValue(ts[m])
       ELSE LeftFold(ts, m - 2) - NumberValue(ts[m])

\* N0 op1 (N1 op2 (N2 ...)): what right-associativity would give.
RECURSIVE RightFold(_, _)
RightFold(ts, m) ==
  IF m = Len(ts) THEN NumberValue(ts[m])
  ELSE IF ts[m + 1] = <<"+">>
       THEN NumberValue(ts[m]) + RightFold(ts, m + 2)
       ELSE NumberValue(ts[m]) - RightFold(ts, m + 2)

\* The tree of the first m tokens, as nested tuples.
RECURSIVE LeftTree(_, _)
LeftTree(ts, m) ==
  IF m = 1 THEN <<"Number", NumberValue(ts[1])>>
  ELSE <<IF ts[m - 1] = <<"+">> THEN "Add" ELSE "Subtract",
         LeftTree(ts, m - 2),
         <<"Number", NumberValue(ts[m])>> >>

\* The tree below node id of heap h, as nested tuples.
RECURSIVE Unfold(_, _)
Unfold(h, id) ==
  IF id = NULL THEN <<"null">>
  ELSE IF h[id].kind \in {"Add", "Subtract"}
       THEN <<h[id].kind, Unfold(h, h[id].left), Unfold(h, h[id].right)>>
       ELSE <<h[id].kind, h[id].number>>

RECURSIVE Leaves(_, _)
Leaves(h, id) ==
  IF id = NULL THEN 0
  ELSE IF h[id].kind \in {"Add", "Subtract"}
       THEN Leaves(h, h[id].left) + Leaves(h, h[id].right)
       ELSE IF h[id].kind = "Number" THEN 1 ELSE 0

RECURSIVE Internal(_, _)
Internal(h, id) ==
  IF id = NULL THEN 0
  ELSE IF h[id].kind \in {"Add", "Subtract"}
       THEN 1 + Internal(h, h[id].left) + Internal(h, h[id].right)
       ELSE 0

RECURSIVE Depth(_, _)
Depth(h, id) ==
  IF id = NULL THEN 0
  ELSE IF h[id].kind \in {"Add", "Subtract"}
       THEN LET dl == Depth(h, h[id].left)
                dr == Depth(h, h[id].right)
            IN  1 + (IF dl > dr THEN dl ELSE dr)
       ELSE 1

\* parse has returned its tree to the caller.
Parsed == pc \in {"done", "eval"}

-----------------------------------------------------------------------------
(* Properties of interpreter.cpp                                           *)

\* C1: for every well-formed input N0 op1 N1 ... opk Nk, every value that
\* interpret() returns on the tree parse built is the left-to-right fold
\* ((N0 op1 N1) op2 N2) ... opk Nk.
C1_LeftToRightFold ==
  (Parsed /\ WellFormed(expr)) =>
     \A j \in 1..Len(returned) :
        returned[j] = LeftFold(Tokens(expr), Len(Tokens(expr)))

\* A well-formed input with at least two operators, whose right-associative
\* reading differs from the left fold, has been parsed and evaluated.
C1_Witness ==
  /\ pc = "done"
  /\ WellFormed(expr)
  /\ OperatorCount(expr) >= 2
  /\ RightFold(Tokens(expr), 1) # LeftFold(Tokens(expr), Len(Tokens(expr)))
  /\ Len(returned) >= 1

\* C2: "5 + 3 - 2" evaluates to 6, "10 - 4 + 2" to 8 and "7" to 7.
C2_Examples ==
  \A j \in 1..Len(returned) :
     /\ expr = <<"5", " ", "+", " ", "3", " ", "-", " ", "2">> => returned[j] = 6
     /\ expr = <<"1", "0", " ", "-", " ", "4", " ", "+", " ", "2">> => returned[j] = 8
     /\ expr = <<"7">> => returned[j] = 7

\* "10 - 4 + 2" has been evaluated.
C2_Witness ==
  /\ expr = <<"1", "0", " ", "-", " ", "4", " ", "+", " ", "2">>
  /\ returned = <<8>>

\* C3: parse does not return a tree for a malformed input (a trailing
\* operator, the empty string, a non-numeric token): it raises an error.
C3_MalformedInputRaises ==
  Parsed => WellFormed(expr)

\* C4: for a well-formed input with k operators, the tree parse returns has
\* exactly k+1 NumberExpression leaves and k Add/Subtract nodes, and the
\* i-th internal node has the tree of all prior terms as its left child and
\* the single leaf N_i as its right child.
C4_TreeShape ==
  (Parsed /\ WellFormed(expr)) =>
     LET ts == Tokens(expr) IN
       /\ Leaves(heap, tree) = OperatorCount(expr) + 1
       /\ Internal(heap, tree) = OperatorCount(expr)
       /\ Unfold(heap, tree) = LeftTree(ts, Len(ts))

\* A tree with an Add and a Subtract node has been returned for a
\* well-formed input, and not yet evaluated.
C4_Witness ==
  /\ pc = "done"
  /\ returned = <<>>
  /\ WellFormed(expr)
  /\ \E a, b \in 1..Len(heap) : heap[a].kind = "Add" /\ heap[b].kind = "Subtract"

\* C5: interpret() is pure: no step of an evaluation changes the tree, and
\* every call on the same tree returns the value the call before returned.
C5_InterpretIsPure ==
  [][Parsed =>
       /\ heap' = heap
       /\ tree' = tree
       /\ (returned' # returned /\ returned # <<>>
             => returned'[Len(returned')] = returned[Len(returned)])]_vars

\* A tree with an operator node has been evaluated twice.
C5_Witness ==
  /\ pc = "done"
  /\ Len(returned) = 2
  /\ Internal(heap, tree) >= 1

\* The children of the Add/Subtract node id.
Children(id) == {heap[id].left, heap[id].right}

InternalNodes == {id \in 1..Len(heap) : heap[id].kind \in {"Add", "Subtract"}}

\* C6: for any input, every Add/Subtract node that parse builds has two
\* children, both non-null and alive; no node is the child of two nodes or
\* is still held by terms, result or the caller; and parse moves only from
\* pointers that still hold their object.
C6_TwoOwnedChildren ==
  /\ \A id \in InternalNodes :
       /\ heap[id].left # NULL
       /\ heap[id].right # NULL
       /\ heap[id].left # heap[id].right
       /\ \A c \in Children(id) :
            /\ c \in 1..Len(heap)
            /\ heap[c].kind # "destroyed"
            /\ c # tree
            /\ c # result
            /\ \A j \in 1..Len(terms) : terms[j] # c
  /\ \A a, b \in InternalNodes : a # b => Children(a) \cap Children(b) = {}
  /\ pc = "scan" => terms[1] # NULL
  /\ pc = "build" => result # NULL
  /\ (pc = "build" /\ i < Len(ops)) => (i + 2 <= Len(terms) /\ terms[i + 2] # NULL)
  /\ Parsed => tree # NULL

\* A tree with an operator node has been returned for an input whose
\* foreign operator left a term unused, destroyed with terms.
C6_Witness ==
  /\ pc = "done"
  /\ InternalNodes # {}
  /\ \E id \in 1..Len(heap) : heap[id].kind = "destroyed"

\* The '+' and '-' characters of the input.
PlusMinusCount(s) == Cardinality({p \in 1..Len(s) : s[p] \in {"+", "-"}})

\* How far a call has got: 0 to 4 as its operands are called and return.
Stage(f) ==
  (IF f.ls = "todo" THEN 0 ELSE IF f.ls = "busy" THEN 1 ELSE 2)
    + (IF f.rs = "todo" THEN 0 ELSE IF f.rs = "busy" THEN 1 ELSE 2)

\* C7: interpret() on a tree built by parse terminates, and its recursion
\* is never deeper than the tree, which is never deeper than the number of
\* operators of the input plus one. Termination is stated twice: every
\* evaluation begun is completed, and every step of an evaluation advances
\* one call of the stack and leaves the calls below it as they were (a
\* lexicographic descent over a stack of bounded depth).
C7_InterpretTerminates ==
  /\ [](Parsed =>
          /\ Len(stack) <= Depth(heap, tree)
          /\ Depth(heap, tree) <= PlusMinusCount(expr) + 1
          /\ (WellFormed(expr) => Depth(heap, tree) <= OperatorCount(expr) + 1))
  /\ [][(pc = "eval" /\ pc' = "eval") =>
          \E j \in 1..Len(stack) :
             /\ j <= Len(stack')
             /\ Stage(stack'[j]) > Stage(stack[j])
             /\ \A m \in 1..(j - 1) : stack'[m] = stack[m]]_vars
  /\ (pc = "eval") ~> (pc = "done")

\* The recursion is as deep as the bound allows: three calls for an input
\* of two operators.
C7_Witness ==
  /\ pc = "eval"
  /\ WellFormed(expr)
  /\ OperatorCount(expr) = 2
  /\ Len(stack) = 3

-----------------------------------------------------------------------------
(* Properties of state.cpp                                                 *)

\* The transition table of C8.
PublishTable(s, user) ==
  CASE s = "Draft" /\ user = "Editor"           -> "Under Review"
    [] s = "Draft" /\ user = "Admin"            -> "Published"
    [] s = "Under Review" /\ user = "Moderator" -> "Published"
    [] s = "Under Review" /\ user = "Admin"     -> "Published"
    [] s = "Published" /\ user = "Admin"        -> "Archived"
    [] OTHER                                    -> s

\* C8: a new Document is in Draft, and publish(role) changes the state
\* exactly by the table: Draft+Editor -> Under Review, Draft+Admin ->
\* Published, Under Review+Moderator -> Published, Under Review+Admin ->
\* Published, Published+Admin -> Archived, and no change otherwise.
C8_PublishFollowsTable ==
  /\ state = "Draft"
  /\ [][\A user \in UserRole :
          Document_publish(user) => state' = PublishTable(state, user)]_vars

\* The document went Draft -> Under Review -> Published -> Archived, with a
\* refused call on the way.
C8_Witness ==
  /\ state = "Archived"
  /\ \E a, b, c, d \in 1..Len(docOut) :
       /\ a < b /\ b < c /\ c < d
       /\ docOut[a] = <<"Draft", "Editor submits for review.">>
       /\ docOut[b] = <<"Under Review", "Only Moderator or Admin can publish.">>
       /\ docOut[c] = <<"Under Review", "Moderator approves and publishes.">>
       /\ docOut[d] = <<"Published", "Admin archives the document.">>

\* C9: Archived is absorbing: no publish call, by any role, takes a
\* Document out of Archived.
C9_ArchivedIsAbsorbing ==
  [][state = "Archived" => state' = "Archived"]_vars

\* publish has been called twice on an archived document.
C9_Witness ==
  /\ state = "Archived"
  /\ \E a, b \in 1..Len(docOut) :
       a < b /\ docOut[a][1] = "Archived" /\ docOut[b][1] = "Archived"

-----------------------------------------------------------------------------
(* Properties of observer.cpp                                              *)

\* The positions of obsOut at which observer o was updated.
UpdatesOf(out, o) == {j \in 1..Len(out) : out[j][1] = o}

Attached(o) == \E j \in 1..Len(observers) : observers[j] = o

\* C10 as stated: setData(d) stores d and calls update() exactly once on
\* every attached observer (and on no other), in the order of attachment,
\* each update reading d.
C10_OnceEachAttached ==
  [][\A d \in DataValues :
       setData(d) =>
         /\ data' = d
         /\ \A j \in 1..Len(obsOut') : obsOut'[j][2] = d
         /\ \A o \in Observer :
              Cardinality(UpdatesOf(obsOut', o)) = IF Attached(o) THEN 1 ELSE 0]_vars

\* C10 as the code has it: setData(d) stores d and calls update() once per
\* entry of observers, in the order of the entries, which is the order of
\* the attach calls (attach appends); each update reads d. An observer
\* attached n times is updated n times.
C10_OncePerAttachment ==
  [][/\ \A d \in DataValues :
          setData(d) =>
            /\ data' = d
            /\ Len(obsOut') = Len(observers)
            /\ \A j \in 1..Len(observers) : obsOut'[j] = <<observers[j], d>>
     /\ \A o \in Observer :
          attach(o) => /\ Len(observers') = Len(observers) + 1
                       /\ observers'[Len(observers')] = o
                       /\ \A j \in 1..Len(observers) : observers'[j] = observers[j]]_vars

\* setData has notified three entries, the first and the last being the
\* same observer, after the data had been set to something else before.
C10_Witness ==
  /\ Len(observers) = 3
  /\ observers[1] = observers[3]
  /\ observers[1] # observers[2]
  /\ data = <<7, 2>>
  /\ obsOut = [j \in 1..3 |-> <<observers[j], <<7, 2>> >>]


\* A step that is a notification: setData with some data, or notify().
Notification ==
  \/ \E d \in DataValues : setData(d)
  \/ notify(data) /\ UNCHANGED <<observers, data>>

\* C11 as stated: once detach(o) has been called, no later setData or
\* notify calls o.update().
C11_NeverAfterDetach ==
  [][\A o \in detached : Notification => UpdatesOf(obsOut', o) = {}]_vars

\* C11 as the code has it: detach(o) removes every entry of o, and no
\* setData or notify calls o.update() while o has no entry, that is until
\* o is attached again; every observer that has an entry is updated by each
\* setData, with the new data.
C11_NotWhileDetached ==
  [][/\ \A o \in Observer : detach(o) => ~Attached(o)'
     /\ \A o \in Observer :
          (Notification /\ ~Attached(o)) => UpdatesOf(obsOut', o) = {}
     /\ \A o \in Observer : \A d \in DataValues :
          (setData(d) /\ Attached(o)) =>
             /\ UpdatesOf(obsOut', o) # {}
             /\ \A j \in UpdatesOf(obsOut', o) : obsOut'[j] = <<o, d>>]_vars

\* As at the end of main: detach(sheet2) has been called, chart alone is
\* attached, and the latest setData updated chart and not sheet2.
C11_Witness ==
  /\ detached = {"sheet2"}
  /\ observers = <<"chart">>
  /\ data = <<7, 2>>
  /\ obsOut = << <<"chart", <<7, 2>> >> >>

\* C17: for every input, well-formed or not, parse collects exactly one
\* more term than operators, so terms[0] exists and every terms[i + 1] the
\* tree-building loop reads is an entry of terms; parse always returns a
\* root that is not null, and never stops with an error: until it has
\* returned, its next statement can always be executed.
C17_OneMoreTerm ==
  /\ pc \in {"scan", "build"} =>
       /\ Len(terms) = Len(ops) + 1
       /\ Len(terms) >= 1
  /\ pc = "build" =>
       /\ result # NULL
       /\ i < Len(ops) => (i + 2) \in 1..Len(terms)
  /\ Parsed => Live(tree)
  /\ pc \in {"parse", "scan", "build"} =>
       ENABLED (ParseBegin \/ ScanTerm \/ ScanEnd \/ BuildNode \/ ParseReturn)

\* "5 + " has been parsed: the operator has no right operand, two terms
\* were collected all the same, and a tree was returned.
C17_Witness ==
  /\ expr = <<"5", " ", "+", " ">>
  /\ pc = "done"
  /\ Live(tree)
  /\ Internal(heap, tree) = 1

\* N0 c1 N1 ... ck Nk: numbers separated by operator tokens, each one
\* character that is not a digit, '+' and '-' or any other.
OperatorShaped(s) ==
  LET ts == Tokens(s) IN
    /\ Len(ts) % 2 = 1
    /\ \A j \in 1..Len(ts) :
         IF j % 2 = 1 THEN IsNumber(ts[j])
         ELSE Len(ts[j]) = 1 /\ ts[j][1] \notin Digits

\* The operator tokens that are neither '+' nor '-'.
ForeignOperators(s) ==
  LET ts == Tokens(s) IN
    {j \in 1..Len(ts) : j % 2 = 0 /\ ~IsOperator(ts[j])}

\* The left fold over the first m tokens in which an operator that is
\* neither '+' nor '-' is passed over with its right operand.
RECURSIVE SkippingTree(_, _)
SkippingTree(ts, m) ==
  IF m = 1 THEN <<"Number", NumberValue(ts[1])>>
  ELSE IF IsOperator(ts[m - 1])
       THEN <<IF ts[m - 1] = <<"+">> THEN "Add" ELSE "Subtract",
              SkippingTree(ts, m - 2),
              <<"Number", NumberValue(ts[m])>> >>
       ELSE SkippingTree(ts, m - 2)

RECURSIVE SkippingFold(_, _)
SkippingFold(ts, m) ==
  IF m = 1 THEN NumberValue(ts[1])
  ELSE IF ts[m - 1] = <<"+">> THEN SkippingFold(ts, m - 2) + NumberValue(ts[m])
  ELSE IF ts[m - 1] = <<"-">> THEN SkippingFold(ts, m - 2) - NumberValue(ts[m])
  ELSE SkippingFold(ts, m - 2)

\* C18: parse does not reject an operator character other than '+' or '-':
\* it passes over it and its right operand, so for numbers separated by k
\* operator tokens the returned tree is the left fold over the '+' and '-'
\* operators alone, with one internal node for each of them and so fewer
\* than k when another operator occurs; "5 * 3 + 2" gives the tree of
\* 5 + 2, which evaluates to 7.
C18_ForeignOperatorSkipped ==
  (Parsed /\ OperatorShaped(expr)) =>
     LET ts == Tokens(expr)
         k == OperatorCount(expr)
     IN  /\ Unfold(heap, tree) = SkippingTree(ts, Len(ts))
         /\ Internal(heap, tree) = k - Cardinality(ForeignOperators(expr))
         /\ ForeignOperators(expr) # {} => Internal(heap, tree) < k
         /\ \A j \in 1..Len(returned) : returned[j] = SkippingFold(ts, Len(ts))
         /\ expr = <<"5", " ", "*", " ", "3", " ", "+", " ", "2">> =>
              /\ Unfold(heap, tree) = <<"Add", <<"Number", 5>>, <<"Number", 2>> >>
              /\ \A j \in 1..Len(returned) : returned[j] = 7

\* "5 * 3 + 2" has been parsed into a tree with one internal node and
\* evaluated to 7.
C18_Witness ==
  /\ expr = <<"5", " ", "*", " ", "3", " ", "+", " ", "2">>
  /\ pc = "done"
  /\ Internal(heap, tree) = 1
  /\ returned = <<7>>

-----------------------------------------------------------------------------
(* Properties of chainofresponsibility.cpp                                 *)

\* The chain of main: authn -> authz -> content.
MainChain ==
  next = [h \in Handlers |->
            IF h = "authn" THEN "authz"
            ELSE IF h = "authz" THEN "content" ELSE "nullptr"]

\* The request was passed to the first handler of the chain.
EnteredAtFirst ==
  \/ chainOut = <<>> /\ running = "authn"
  \/ chainOut # <<>> /\ chainOut[1][1] = "authn"

Served == \E j \in 1..Len(chainOut) : chainOut[j] = <<"content", "Serving page">>

\* The line an access-denied outcome ends with.
Denial(line) ==
  line \in { "Access denied: User is not authenticated.",
             "Access denied: User is not authorized to access" }

\* C12: with the chain authn -> authz -> content, a request passed to authn
\* is served by ContentHandler if and only if it is authenticated and
\* authorized; otherwise its handling ends with an access-denied line, and
\* the page is at no time served.
C12_ServedIffBothChecksPass ==
  (MainChain /\ EnteredAtFirst) =>
     /\ Served => (request.authenticated /\ request.authorized)
     /\ (running = "none" /\ chainOut # <<>>) =>
          IF request.authenticated /\ request.authorized
          THEN Served /\ \A j \in 1..Len(chainOut) : ~Denial(chainOut[j][2])
          ELSE ~Served /\ Denial(chainOut[Len(chainOut)][2])

\* A request with both flags set went down the chain of main and was served.
C12_Witness ==
  /\ MainChain
  /\ EnteredAtFirst
  /\ running = "none"
  /\ request.authenticated /\ request.authorized
  /\ Served

\* The handlers that have run for the request, in order, without repeats.
RECURSIVE RunOrder(_)
RunOrder(out) ==
  IF out = <<>> THEN <<>>
  ELSE LET rest == RunOrder(SubSeq(out, 1, Len(out) - 1))
           h == out[Len(out)][1]
       IN  IF rest # <<>> /\ rest[Len(rest)] = h THEN rest ELSE Append(rest, h)

Accepted(h, line) == \E j \in 1..Len(chainOut) : chainOut[j] = <<h, line>>

\* C13: with the chain of main, the handlers run in chain order and the
\* chain stops at the first failing check: authz runs only after authn has
\* accepted the request, content only after both have, and for a request
\* that is not authenticated neither authz nor content runs, whatever
\* request.authorized is.
C13_ChainOrder ==
  (MainChain /\ EnteredAtFirst) =>
     /\ RunOrder(chainOut) \in {<<>>, <<"authn">>, <<"authn", "authz">>,
                                <<"authn", "authz", "content">>}
     /\ running \in {"authz", "content"} \cup {chainOut[j][1] : j \in 1..Len(chainOut)}
          => Accepted("authn", "is authenticated.")
     /\ running = "content" \/ Served
          => Accepted("authz", "is authorized to access")
     /\ ~request.authenticated =>
          /\ running \notin {"authz", "content"}
          /\ \A j \in 1..Len(chainOut) : chainOut[j][1] = "authn"
     /\ ~request.authorized => running # "content" /\ ~Served

\* A request that is authorized but not authenticated was stopped by authn.
C13_Witness ==
  /\ MainChain
  /\ EnteredAtFirst
  /\ running = "none"
  /\ ~request.authenticated /\ request.authorized
  /\ Len(chainOut) = 2

-----------------------------------------------------------------------------
(* Properties of command.cpp                                               *)

\* The press that has just added a line to remoteOut.
Pressed == Len(remoteOut') = Len(remoteOut) + 1

LastPress == remoteOut'[Len(remoteOut')]

\* C14: pressOnButton(slot) executes exactly the ON command most recently
\* passed to setCommand for that slot, and pressOffButton(slot) the OFF
\* command; for a slot never set, a slot beyond the range, or a command that
\* was passed as null, no command is executed and 'No ON (OFF) command set
\* for slot' is reported.
C14_PressRunsLastSet ==
  [][/\ \A slot \in ButtonSlots : (pressOnButton(slot) /\ Pressed) =>
          IF passed[slot][1] # NULL
          THEN LastPress = <<passed[slot][1],
                             IF made[passed[slot][1]] = "LightOnCommand"
                             THEN <<"Light is ON">> ELSE <<"Light is OFF">> >>
          ELSE LastPress = <<NULL, <<"No ON command set for slot ", slot>> >>
     /\ \A slot \in ButtonSlots : (pressOffButton(slot) /\ Pressed) =>
          IF passed[slot][2] # NULL
          THEN LastPress = <<passed[slot][2],
                             IF made[passed[slot][2]] = "LightOnCommand"
                             THEN <<"Light is ON">> ELSE <<"Light is OFF">> >>
          ELSE LastPress = <<NULL, <<"No OFF command set for slot ", slot>> >>]_vars

\* Slot 0 was set twice, both times with a null OFF command; the ON button
\* ran the second ON command and the OFF button reported none.
C14_Witness ==
  /\ passed[0] = <<2, NULL>>
  /\ onCommands = <<2>> /\ offCommands = <<NULL>>
  /\ remoteOut = << <<2, <<"Light is ON">> >>,
                    <<NULL, <<"No OFF command set for slot ", 0>> >> >>

-----------------------------------------------------------------------------
(* Properties of template.cpp                                              *)

\* The steps of a finished recipe, with or without condiments.
RecipeSteps(w) ==
  <<"boilWater", "brew", "pourInCup", "customerWantsCondiments">>
    \o (IF w THEN <<"addCondiments">> ELSE <<>>)

StepsDone == [j \in 1..Len(recipeOut) |-> recipeOut[j][1]]

\* C15: prepareRecipe performs boilWater, brew, pourInCup in that order and
\* then addCondiments if and only if customerWantsCondiments() returned
\* true; for Tea and Coffee addCondiments always runs; the order is the
\* same for every subclass.
C15_FixedOrder ==
  beverage \in Beverages =>
     /\ \E n \in 0..5 : /\ n <= Len(RecipeSteps(wants))
                        /\ StepsDone = SubSeq(RecipeSteps(wants), 1, n)
     /\ step = "idle" => StepsDone = RecipeSteps(wants)
     /\ (step = "idle" /\ beverage \in {"Tea", "Coffee"}) =>
          recipeOut[5] = <<"addCondiments", addCondiments(beverage)>>
     /\ Len(recipeOut) >= 2 => recipeOut[2] = <<"brew", brew(beverage)>>

\* A hot chocolate was finished without whipped cream: the customer typed n.
C15_Witness ==
  /\ beverage = "HotChocolate"
  /\ step = "idle"
  /\ ~wants
  /\ StepsDone = <<"boilWater", "brew", "pourInCup", "customerWantsCondiments">>

-----------------------------------------------------------------------------
(* Properties of memento.cpp                                               *)

\* C16: if the memento m was saved when the originator's state was s, then
\* after any later calls of setState and restoreFromMemento,
\* restoreFromMemento(m) sets the originator's state to exactly s.
C16_RoundTrip ==
  restored # -1 => originator = taken[restored + 1]

\* As in main: the first memento was saved at State #2, the state went on
\* to State #3 and to another memento, and restoring the first gave
\* State #2 back.
C16_Witness ==
  /\ taken = <<"State #2", "State #3">>
  /\ restored = 0
  /\ originator = "State #2"

=============================================================================
